---- MODULE Spec2Model ----
(***************************************************************************)
(* Confluence Label Lifecycle Manager (src/main.py).                       *)
(*                                                                         *)
(* A label is modelled by the list of fields str.split("=") yields for     *)
(* it: "lifecycle_phase=fresh" is <<"lifecycle_phase", "fresh">>,          *)
(* "lifecycle_ignore" is <<"lifecycle_ignore">> and "lifecycle_ignore="    *)
(* is <<"lifecycle_ignore", "">>.  Instants (datetime values) are          *)
(* integers.                                                               *)
(***************************************************************************)
EXTENDS Integers, Sequences, FiniteSets, TLC

VARIABLES
  existing_labels,  \* action_set_page_label: labels in the order get_page_labels returns them
  desired_label,    \* action_set_page_label: the desired_label argument
  fails,            \* the store calls <<op, label>> that raise ApiError / HTTPError
  now,              \* the value datetime.now() returns
  store,            \* the labels the document store holds for the page
  result,           \* what action_set_page_label returned, its calls included
  lpc,              \* "idle", "call" before action_set_page_label ran, "done" after
  space,            \* discover_all_pages_in_space: the pages of the space, in store order
  max,              \* discover_all_pages_in_space: the max argument
  limit,            \* discover_all_pages_in_space: the limit argument
  discovered,       \* what discover_all_pages_in_space returned, its requests included
  dpc,              \* "idle", "call", "done"
  last_update,      \* discover_page_state: the page's parsed lastUpdated instant
  clock_rotten,     \* the datetime.now() read for date_rotten
  clock_stale,      \* the datetime.now() read for date_stale
  rotten_days,      \* discover_page_state: the rotten_days argument
  stale_days,       \* discover_page_state: the stale_days argument
  state,            \* the state discover_page_state computed
  spc,              \* "idle", "call", "done"
  page_labels,      \* run: page id -> the labels get_page_labels returns for it
  page_updated,     \* run: page id -> the page's lastUpdated instant
  readonly,         \* run: arguments.readonly
  updatepage,       \* run: arguments.updatepage
  maxpages,         \* run: arguments.maxpages
  pc,               \* run: the position of manage_pages_in_space
  all_pages_in_space, \* run: the discovered page ids
  tasks,            \* run: page id -> "none", "queued", "running" or "done"
  task_state,       \* run: page id -> the state its discover_page_state task returned
  buckets,          \* run: <<all_fresh_pages, all_stale_pages, all_rotten_pages>>
  loop,             \* run: the for loop being executed, an index of target_labels
  idx,              \* run: the position of that loop in its bucket
  pages_updated,    \* run: the *_pages_updated counters, by target label index
  lifecycle_triggers, \* run: the *_pages_lifecycle_triggers counters
  counts,           \* run: <<fresh_pages, stale_pages, rotten_pages>> once computed
  mutations,        \* run: the mutating store calls issued, in order
  run_store,        \* run: page id -> the labels the store holds for it
  reconciled        \* run: the pages whose action_set_page_label returned

lvars == <<existing_labels, desired_label, fails, store, result, lpc>>
rvars == <<page_labels, page_updated, readonly, updatepage, maxpages, pc,
           all_pages_in_space, tasks, task_state, buckets, loop, idx,
           pages_updated, lifecycle_triggers, counts, mutations, run_store, reconciled>>
dvars == <<space, max, limit, discovered, dpc>>
svars == <<last_update, clock_rotten, clock_stale, rotten_days, stale_days, state, spc>>

----------------------------------------------------------------------------
(* Bounds *)

MaxLabels == 3
MaxFails == 1
MaxSpace == 5
MaxMax == 5
MaxLimit == 6
MaxDays == 3
MaxInstant == 8
MaxSkew == 1
TicksPerDay == 2
NumPages == 2
PoolExtra == 1

----------------------------------------------------------------------------
(* Program constants *)

deprecated_labels == << <<"fresh">>, <<"stale">>, <<"rotten">> >>

target_labels ==
  << <<"lifecycle_phase", "fresh">>,
     <<"lifecycle_phase", "stale">>,
     <<"lifecycle_phase", "rotten">> >>

lifecycle_ignore_tag == "lifecycle_ignore"

----------------------------------------------------------------------------
(* Label strings and dates *)

Range(s) == {s[i] : i \in DOMAIN s}

\* The date strings that dateutil's parse() accepts, with the instant each denotes.
DateValue == [d \in {"20200101", "20990101"} |->
                IF d = "20200101" THEN 20200101 ELSE 20990101]

\* parse(s) raises ParserError
ParserError(s) == s \notin DOMAIN DateValue

parse(s) == DateValue[s]

\* current_label.startswith(prefix): the prefix holds no "=", so it is a
\* prefix of the label exactly when it is a prefix of the first field.
startswith(label, prefix) ==
  \/ label[1] = prefix
  \/ prefix = "lifecycle_ignore" /\ label[1] \in {"lifecycle_ignored", "lifecycle_ignore_me"}

\* current_label.count('=')
CountEq(label) == Len(label) - 1

\* The labels a page can carry.
Labels ==
  Range(target_labels) \cup Range(deprecated_labels) \cup
  { <<"lifecycle_ignore">>, <<"lifecycle_ignore", "">>,
    <<"lifecycle_ignore", "20200101">>, <<"lifecycle_ignore", "20990101">>,
    <<"lifecycle_ignore", "someday">>, <<"howto">> }

\* The instants at which a run takes place.
Clock == {20200101, 20261101}

\* A page holds a label at most once: the lists get_page_labels can return.
LabelLists(n) ==
  UNION { {s \in [1..k -> Labels] : \A i, j \in 1..k : i # j => s[i] # s[j]} : k \in 0..n }

----------------------------------------------------------------------------
(* action_set_page_label *)

Call(op, label, ok) == [op |-> op, label |-> label, ok |-> ok]

\* Lines 203-204: the label is one of the deprecated labels
IsDeprecated(current_label) ==
  \E d \in DOMAIN deprecated_labels : deprecated_labels[d] = current_label

\* Lines 201-206: remove every deprecated label; an error of remove_page_label
\* is not caught here and leaves the function.
RECURSIVE DeprecatedLoop(_, _, _, _)
DeprecatedLoop(existing, i, failing, calls) ==
  IF i > Len(existing) THEN [calls |-> calls, raised |-> FALSE]
  ELSE LET current_label == existing[i] IN
    IF IsDeprecated(current_label)
    THEN IF <<"remove_page_label", current_label>> \in failing
         THEN [calls |-> Append(calls, Call("remove_page_label", current_label, FALSE)),
               raised |-> TRUE]
         ELSE DeprecatedLoop(existing, i + 1, failing,
                Append(calls, Call("remove_page_label", current_label, TRUE)))
    ELSE DeprecatedLoop(existing, i + 1, failing, calls)

\* Line 211
UndesirableLabels(desired) ==
  {target_labels[i] : i \in {j \in DOMAIN target_labels : target_labels[j] # desired}}

\* As LifecycleException, with the date comparison of line 239 dropped: any
\* date that parses suppresses.
LifecycleExceptionAnyDate(current_label, t) ==
  /\ startswith(current_label, lifecycle_ignore_tag)
  /\ \/ ~(CountEq(current_label) > 0)
     \/ current_label[2] = ""
     \/ ~ParserError(current_label[2])

\* Lines 221-250: does this label end the scan as a lifecycle exception?
LifecycleException(current_label, t) ==
  /\ startswith(current_label, lifecycle_ignore_tag)
  /\ \/ ~(CountEq(current_label) > 0)
     \/ current_label[2] = ""
     \/ /\ ~ParserError(current_label[2])
        /\ ~(t > parse(current_label[2]))

\* As AlreadyLabelled, with the test of line 261 never succeeding.
NeverAlreadyLabelled(current_label, desired) == FALSE

\* Line 261: the page already has the label we are looking to apply
AlreadyLabelled(current_label, desired) == current_label = desired

\* Lines 217-264: the scan of the labels in their returned order.
RECURSIVE ScanLoop(_, _, _, _, _, _)
ScanLoop(existing, i, desired, failing, t, st) ==
  IF i > Len(existing) THEN st
  ELSE LET current_label == existing[i] IN
    IF LifecycleException(current_label, t)
    THEN [st EXCEPT !.labelling_required = FALSE,
                    !.triggered_lifecycle_exception = TRUE]
    ELSE IF st.labelling_required /\ current_label \in UndesirableLabels(desired)
              /\ <<"remove_page_label", current_label>> \in failing
    THEN \* except (ApiError, HTTPError): continue
         ScanLoop(existing, i + 1, desired, failing, t,
           [st EXCEPT !.calls = Append(@, Call("remove_page_label", current_label, FALSE))])
    ELSE LET st1 == IF st.labelling_required /\ current_label \in UndesirableLabels(desired)
                    THEN [st EXCEPT !.calls =
                            Append(@, Call("remove_page_label", current_label, TRUE))]
                    ELSE st
         IN IF st1.labelling_required /\ AlreadyLabelled(current_label, desired)
            THEN [st1 EXCEPT !.labelling_required = FALSE]
            ELSE ScanLoop(existing, i + 1, desired, failing, t, st1)

\* Lines 189-284.  The result holds the returned pair (change,
\* lifecycle_trigger), whether an error left the function instead, and the
\* store calls made, in order.
ActionSetPageLabel(existing, desired, failing, t) ==
  LET dep == DeprecatedLoop(existing, 1, failing, <<>>) IN
  IF dep.raised
  THEN [raised |-> TRUE, change |-> FALSE, lifecycle_trigger |-> FALSE, calls |-> dep.calls]
  ELSE
    LET st == ScanLoop(existing, 1, desired, failing, t,
                [labelling_required |-> TRUE,
                 triggered_lifecycle_exception |-> FALSE,
                 calls |-> dep.calls])
    IN IF st.labelling_required
       THEN IF <<"set_page_label", desired>> \in failing
            THEN [raised |-> FALSE, change |-> FALSE, lifecycle_trigger |-> FALSE,
                  calls |-> Append(st.calls, Call("set_page_label", desired, FALSE))]
            ELSE [raised |-> FALSE, change |-> TRUE, lifecycle_trigger |-> FALSE,
                  calls |-> Append(st.calls, Call("set_page_label", desired, TRUE))]
       ELSE IF st.triggered_lifecycle_exception
            THEN [raised |-> FALSE, change |-> FALSE, lifecycle_trigger |-> TRUE,
                  calls |-> st.calls]
            ELSE [raised |-> FALSE, change |-> FALSE, lifecycle_trigger |-> FALSE,
                  calls |-> st.calls]

\* The document store: a call that succeeded removes or adds the label, a
\* call that raised had no effect.
RECURSIVE ApplyCalls(_, _)
ApplyCalls(labels, calls) ==
  IF calls = <<>> THEN labels
  ELSE LET c == Head(calls) IN
    ApplyCalls(IF ~c.ok THEN labels
               ELSE IF c.op = "remove_page_label" THEN labels \ {c.label}
               ELSE labels \cup {c.label},
               Tail(calls))

\* The label calls a reconciliation of these labels can make.
LabelCalls(existing, desired) ==
  {<<"remove_page_label", l>> :
      l \in Range(existing) \cap (Range(deprecated_labels) \cup Range(target_labels))}
  \cup {<<"set_page_label", desired>>}

NoResult == [raised |-> FALSE, change |-> FALSE, lifecycle_trigger |-> FALSE, calls |-> <<>>]

LabelIdle ==
  /\ existing_labels = <<>>
  /\ desired_label = target_labels[1]
  /\ fails = {}
  /\ store = {}
  /\ result = NoResult
  /\ lpc = "idle"

LabelStart ==
  /\ existing_labels \in LabelLists(MaxLabels)
  /\ desired_label \in Range(target_labels)
  /\ fails \in {f \in SUBSET LabelCalls(existing_labels, desired_label) :
                  Cardinality(f) <= MaxFails}
  /\ now \in Clock
  /\ store = Range(existing_labels)
  /\ result = NoResult
  /\ lpc = "call"

SetPageLabel ==
  /\ lpc = "call"
  /\ result' = ActionSetPageLabel(existing_labels, desired_label, fails, now)
  /\ store' = ApplyCalls(store, result'.calls)
  /\ lpc' = "done"
  /\ UNCHANGED <<existing_labels, desired_label, fails>>

----------------------------------------------------------------------------
(* discover_all_pages_in_space *)

Min(a, b) == IF a < b THEN a ELSE b

\* client.get_all_pages_from_space(space, start=start, limit=limit): at most
\* limit pages of the space, from offset start on.
GetAllPagesFromSpace(pages, start, lim) ==
  SubSeq(pages, start + 1, Min(start + lim, Len(pages)))

\* As ClampLimit, with lines 60-62 left out.
NoClampLimit(mx, lim) == lim

\* Lines 60-62
ClampLimit(mx, lim) == IF lim > mx THEN mx ELSE lim

\* Line 65: the loop goes on while the size of the LAST answer is below max.
LoopCondition(count, mx) == count < mx

\* Lines 64-76
RECURSIVE DiscoverLoop(_, _, _, _, _, _, _)
DiscoverLoop(sp, mx, lim, start, count, pages, requests) ==
  IF ~LoopCondition(count, mx) THEN [pages |-> pages, requests |-> requests]
  ELSE LET all_pages == GetAllPagesFromSpace(sp, start, lim)
           reqs == Append(requests, [start |-> start, limit |-> lim])
       IN IF Len(all_pages) = 0
          THEN [pages |-> pages, requests |-> reqs]
          ELSE DiscoverLoop(sp, mx, lim, start + lim, Len(all_pages),
                            pages \o all_pages, reqs)

\* Lines 46-78
DiscoverAllPagesInSpace(sp, mx, lim) ==
  DiscoverLoop(sp, mx, ClampLimit(mx, lim), 0, 0, <<>>, <<>>)

NoPages == [pages |-> <<>>, requests |-> <<>>]

DiscoverIdle ==
  /\ space = <<>>
  /\ max = 0
  /\ limit = 0
  /\ discovered = NoPages
  /\ dpc = "idle"

DiscoverStart ==
  /\ space \in {[i \in 1..n |-> i] : n \in 0..MaxSpace}
  /\ max \in 0..MaxMax
  /\ limit \in 1..MaxLimit
  /\ discovered = NoPages
  /\ dpc = "call"

DiscoverPages ==
  /\ dpc = "call"
  /\ discovered' = DiscoverAllPagesInSpace(space, max, limit)
  /\ dpc' = "done"
  /\ UNCHANGED <<space, max, limit>>

----------------------------------------------------------------------------
(* discover_page_state *)

\* timedelta(days=n), in clock ticks
timedelta(days) == days * TicksPerDay

\* As DiscoverPageState, with <= for the < of lines 177-178.
DiscoverPageStateInclusive(updated, t_rotten, t_stale, rotten, stale) ==
  LET date_rotten == t_rotten - timedelta(rotten)
      date_stale == t_stale - timedelta(stale)
  IN IF updated <= date_rotten THEN target_labels[3]
     ELSE IF updated <= date_stale THEN target_labels[2]
     ELSE target_labels[1]

\* Lines 150-151 and 176-178.  t_rotten and t_stale are the two readings of
\* datetime.now().
DiscoverPageState(updated, t_rotten, t_stale, rotten, stale) ==
  LET date_rotten == t_rotten - timedelta(rotten)
      date_stale == t_stale - timedelta(stale)
  IN IF updated < date_rotten THEN target_labels[3]
     ELSE IF updated < date_stale THEN target_labels[2]
     ELSE target_labels[1]

StateIdle ==
  /\ last_update = 0
  /\ clock_rotten = 0
  /\ clock_stale = 0
  /\ rotten_days = 0
  /\ stale_days = 0
  /\ state = <<>>
  /\ spc = "idle"

StateStart ==
  /\ last_update \in 0..MaxInstant
  /\ clock_rotten \in 0..MaxInstant
  /\ clock_stale \in {clock_rotten + k : k \in 0..MaxSkew}
  /\ rotten_days \in 0..MaxDays
  /\ stale_days \in 0..MaxDays
  /\ state = <<>>
  /\ spc = "call"

PageState ==
  /\ spc = "call"
  /\ state' = DiscoverPageState(last_update, clock_rotten, clock_stale, rotten_days, stale_days)
  /\ spc' = "done"
  /\ UNCHANGED <<last_update, clock_rotten, clock_stale, rotten_days, stale_days>>

----------------------------------------------------------------------------
(* manage_pages_in_space *)

\* The default of the limit parameter of discover_all_pages_in_space
DefaultLimit == 500
\* The defaults of --maxpages, --stale and --rotten
DefaultMaxPages == 2500
DefaultStale == 90
DefaultRotten == 180
\* ThreadPoolExecutor(max_workers=15)
max_workers == 15
\* arguments.pageid: the report page, which is not among the managed pages
ReportPage == 0

PageIds == 1..NumPages

\* The pages of the space of this run
Pages == DOMAIN page_labels

\* The label lists of the pages of a run, and the ages of the pages in days.
RunLabelLists ==
  { <<>>,
    <<deprecated_labels[1]>>,
    <<target_labels[1], deprecated_labels[3]>>,
    <<<<"lifecycle_ignore">>, target_labels[2]>> }
RunAges == {0, 91, 181}

\* As ReconcileGuard, with the test of line 317 left out.
AlwaysReconcile(ro) == TRUE

\* Line 317
ReconcileGuard(ro) == ~ro

\* Line 366
ReportGuard(ro, up) == (~ro) /\ up

\* Lines 308-310: the pages of one state, in the order of pages_with_states
Bucket(pages, states, k) ==
  LET InState(p) == states[p] = target_labels[k] IN SelectSeq(pages, InState)

Mutation(page, c) == [page |-> page, op |-> c.op, label |-> c.label, ok |-> c.ok]

RECURSIVE Mutations(_, _)
Mutations(page, calls) ==
  IF calls = <<>> THEN <<>>
  ELSE <<Mutation(page, Head(calls))>> \o Mutations(page, Tail(calls))

NoCounts == <<-1, -1, -1>>

RunIdle ==
  /\ page_labels = <<>>
  /\ page_updated = <<>>
  /\ readonly = FALSE
  /\ updatepage = FALSE
  /\ maxpages = 0
  /\ pc = "idle"
  /\ all_pages_in_space = <<>>
  /\ tasks = <<>>
  /\ task_state = <<>>
  /\ buckets = <<>>
  /\ loop = 0
  /\ idx = 0
  /\ pages_updated = <<>>
  /\ lifecycle_triggers = <<>>
  /\ counts = NoCounts
  /\ mutations = <<>>
  /\ run_store = <<>>
  /\ reconciled = {}

RunStart ==
  /\ page_labels \in [PageIds -> RunLabelLists]
  /\ page_updated \in [PageIds -> {now - timedelta(a) : a \in RunAges}]
  /\ readonly \in BOOLEAN
  /\ updatepage \in BOOLEAN
  /\ maxpages \in {1, DefaultMaxPages}
  /\ pc = "discover"
  /\ all_pages_in_space = <<>>
  /\ tasks = [p \in Pages |-> "none"]
  /\ task_state = [p \in Pages |-> <<>>]
  /\ buckets = <<<<>>, <<>>, <<>>>>
  /\ loop = 0
  /\ idx = 0
  /\ pages_updated = <<0, 0, 0>>
  /\ lifecycle_triggers = <<0, 0, 0>>
  /\ counts = NoCounts
  /\ mutations = <<>>
  /\ run_store = [p \in Pages |-> Range(page_labels[p])]
  /\ reconciled = {}

\* Line 298
RunDiscover ==
  /\ pc = "discover"
  /\ all_pages_in_space' =
       DiscoverAllPagesInSpace([i \in Pages |-> i], maxpages, DefaultLimit).pages
  /\ pc' = "labels"
  /\ UNCHANGED <<page_labels, page_updated, readonly, updatepage, maxpages, tasks,
                 task_state, buckets, loop, idx, pages_updated, lifecycle_triggers,
                 counts, mutations, run_store, reconciled>>

\* Line 299: discover_page_labels for every page, reads only
RunFetchLabels ==
  /\ pc = "labels"
  /\ pc' = "submit"
  /\ UNCHANGED <<page_labels, page_updated, readonly, updatepage, maxpages,
                 all_pages_in_space, tasks, task_state, buckets, loop, idx,
                 pages_updated, lifecycle_triggers, counts, mutations, run_store,
                 reconciled>>

\* Line 303: one discover_page_state task per page is handed to the pool
RunSubmit ==
  /\ pc = "submit"
  /\ tasks' = [p \in Pages |-> IF p \in Range(all_pages_in_space) THEN "queued" ELSE "none"]
  /\ pc' = "classify"
  /\ UNCHANGED <<page_labels, page_updated, readonly, updatepage, maxpages,
                 all_pages_in_space, task_state, buckets, loop, idx, pages_updated,
                 lifecycle_triggers, counts, mutations, run_store, reconciled>>

\* As WorkerFree, with no ceiling on the number of workers.
WorkerAlwaysFree(t) == TRUE

\* Line 302: the pool has max_workers workers, each running one task at a time
WorkerFree(t) == Cardinality({q \in DOMAIN t : t[q] = "running"}) < max_workers

\* Line 303: the pool's work queue is first in, first out, so the task
\* submitted for page p is taken when no task submitted before it waits.
HeadOfQueue(t, submitted, p) ==
  \A i \in DOMAIN submitted :
    submitted[i] = p => \A j \in 1..(i - 1) : t[submitted[j]] # "queued"

\* A worker of the pool takes a queued task; at most max_workers run at once.
TaskStart(p) ==
  /\ pc = "classify"
  /\ tasks[p] = "queued"
  /\ WorkerFree(tasks)
  /\ HeadOfQueue(tasks, all_pages_in_space, p)
  /\ tasks' = [tasks EXCEPT ![p] = "running"]
  /\ UNCHANGED <<page_labels, page_updated, readonly, updatepage, maxpages, pc,
                 all_pages_in_space, task_state, buckets, loop, idx, pages_updated,
                 lifecycle_triggers, counts, mutations, run_store, reconciled>>

\* Lines 106-187 in a worker: the task of page p returns its state
TaskFinish(p) ==
  /\ pc = "classify"
  /\ tasks[p] = "running"
  /\ tasks' = [tasks EXCEPT ![p] = "done"]
  /\ task_state' = [task_state EXCEPT ![p] =
       DiscoverPageState(page_updated[p], now, now, DefaultRotten, DefaultStale)]
  /\ UNCHANGED <<page_labels, page_updated, readonly, updatepage, maxpages, pc,
                 all_pages_in_space, buckets, loop, idx, pages_updated,
                 lifecycle_triggers, counts, mutations, run_store, reconciled>>

\* As AllTasksDone, for a pool that is left as soon as one task is done.
SomeTaskDone(t) == \E p \in DOMAIN t : t[p] = "done"

\* Lines 302-303: leaving the with block waits for every submitted task
AllTasksDone(t) == \A p \in DOMAIN t : t[p] \in {"none", "done"}

\* Lines 302-317: the with block ends when every task is done; the results
\* are collected and the pages partitioned by state.
RunJoin ==
  /\ pc = "classify"
  /\ AllTasksDone(tasks)
  /\ buckets' = [k \in 1..3 |-> Bucket(all_pages_in_space, task_state, k)]
  /\ IF ReconcileGuard(readonly)
     THEN pc' = "reconcile" /\ loop' = 3 /\ idx' = 1
     ELSE pc' = "tally" /\ UNCHANGED <<loop, idx>>
  /\ UNCHANGED <<page_labels, page_updated, readonly, updatepage, maxpages,
                 all_pages_in_space, tasks, task_state, pages_updated,
                 lifecycle_triggers, counts, mutations, run_store, reconciled>>

\* Lines 327-349: one iteration of a for loop.  An error that leaves
\* action_set_page_label leaves manage_pages_in_space too.
RunReconcile ==
  /\ pc = "reconcile"
  /\ idx <= Len(buckets[loop])
  /\ LET page == buckets[loop][idx]
         \* client.get_page_labels: the page's labels as the store holds them
         existing == SelectSeq(page_labels[page], LAMBDA l : l \in run_store[page])
     IN \E failing \in {f \in SUBSET LabelCalls(existing, target_labels[loop]) :
                          Cardinality(f) <= MaxFails} :
          LET r == ActionSetPageLabel(existing, target_labels[loop], failing, now) IN
          /\ mutations' = mutations \o Mutations(page, r.calls)
          /\ run_store' = [run_store EXCEPT ![page] = ApplyCalls(@, r.calls)]
          /\ IF r.raised
             THEN /\ pc' = "aborted"
                  /\ UNCHANGED <<idx, pages_updated, lifecycle_triggers, reconciled>>
             ELSE /\ pc' = pc
                  /\ idx' = idx + 1
                  /\ reconciled' = reconciled \cup {page}
                  /\ pages_updated' = [pages_updated EXCEPT ![loop] =
                                         IF r.change THEN @ + 1 ELSE @]
                  /\ lifecycle_triggers' = [lifecycle_triggers EXCEPT ![loop] =
                                         IF r.lifecycle_trigger THEN @ + 1 ELSE @]
  /\ UNCHANGED <<page_labels, page_updated, readonly, updatepage, maxpages,
                 all_pages_in_space, tasks, task_state, buckets, loop, counts>>

\* A for loop ends: the rotten pages are followed by the stale, then the fresh
RunNextLoop ==
  /\ pc = "reconcile"
  /\ idx > Len(buckets[loop])
  /\ IF loop > 1
     THEN loop' = loop - 1 /\ idx' = 1 /\ pc' = pc
     ELSE pc' = "tally" /\ UNCHANGED <<loop, idx>>
  /\ UNCHANGED <<page_labels, page_updated, readonly, updatepage, maxpages,
                 all_pages_in_space, tasks, task_state, buckets, pages_updated,
                 lifecycle_triggers, counts, mutations, run_store, reconciled>>

\* Lines 351-366
RunTally ==
  /\ pc = "tally"
  /\ counts' = <<Len(buckets[1]), Len(buckets[2]), Len(buckets[3])>>
  /\ pc' = IF ReportGuard(readonly, updatepage) THEN "report" ELSE "done"
  /\ UNCHANGED <<page_labels, page_updated, readonly, updatepage, maxpages,
                 all_pages_in_space, tasks, task_state, buckets, loop, idx,
                 pages_updated, lifecycle_triggers, mutations, run_store, reconciled>>

\* Lines 367-484: the report page is written and labelled lifecycle_ignore
RunReport ==
  /\ pc = "report"
  /\ mutations' = mutations \o
       << [page |-> ReportPage, op |-> "attach_file", label |-> <<"pie.png">>, ok |-> TRUE],
          [page |-> ReportPage, op |-> "update_page", label |-> <<>>, ok |-> TRUE],
          [page |-> ReportPage, op |-> "set_page_label",
           label |-> <<"lifecycle_ignore">>, ok |-> TRUE] >>
  /\ pc' = "done"
  /\ UNCHANGED <<page_labels, page_updated, readonly, updatepage, maxpages,
                 all_pages_in_space, tasks, task_state, buckets, loop, idx,
                 pages_updated, lifecycle_triggers, counts, run_store, reconciled>>

----------------------------------------------------------------------------
(* Specifications *)

vars == <<now, lvars, dvars, svars, rvars>>

LabelInit == LabelStart /\ DiscoverIdle /\ StateIdle /\ RunIdle
LabelNext == SetPageLabel /\ UNCHANGED <<now, dvars, svars, rvars>>
SpecLabel == LabelInit /\ [][LabelNext]_vars

DiscoverInit == now = 0 /\ LabelIdle /\ DiscoverStart /\ StateIdle /\ RunIdle
DiscoverNext == DiscoverPages /\ UNCHANGED <<now, lvars, svars, rvars>>
SpecDiscover == DiscoverInit /\ [][DiscoverNext]_vars

StateInit == now = 0 /\ LabelIdle /\ DiscoverIdle /\ StateStart /\ RunIdle
StateNext == PageState /\ UNCHANGED <<now, lvars, dvars, rvars>>
SpecState == StateInit /\ [][StateNext]_vars

RunInit == now \in Clock /\ LabelIdle /\ DiscoverIdle /\ StateIdle /\ RunStart
RunNext ==
  /\ \/ RunDiscover
     \/ RunFetchLabels
     \/ RunSubmit
     \/ \E p \in Pages : TaskStart(p)
     \/ \E p \in Pages : TaskFinish(p)
     \/ RunJoin
     \/ RunReconcile
     \/ RunNextLoop
     \/ RunTally
     \/ RunReport
  /\ UNCHANGED <<now, lvars, dvars, svars>>
SpecRun == RunInit /\ [][RunNext]_vars

\* A run, not read-only, over more pages than the pool has workers: page 1
\* is rotten and carries a deprecated label, page 2 is stale and carries a
\* deprecated and an undesirable label, page 3 is fresh and unlabelled, and
\* the other pages are fresh and labelled so.
PoolPages == max_workers + PoolExtra

PoolStart ==
  /\ page_labels = [p \in 1..PoolPages |->
                      IF p = 1 THEN <<deprecated_labels[1]>>
                      ELSE IF p = 2 THEN <<target_labels[1], deprecated_labels[3]>>
                      ELSE IF p = 3 THEN <<>>
                      ELSE <<target_labels[1]>>]
  /\ page_updated = [p \in 1..PoolPages |->
                      now - timedelta(IF p = 1 THEN 181 ELSE IF p = 2 THEN 91 ELSE 0)]
  /\ readonly = FALSE
  /\ updatepage = TRUE
  /\ maxpages = DefaultMaxPages
  /\ pc = "discover"
  /\ all_pages_in_space = <<>>
  /\ tasks = [p \in Pages |-> "none"]
  /\ task_state = [p \in Pages |-> <<>>]
  /\ buckets = <<<<>>, <<>>, <<>>>>
  /\ loop = 0
  /\ idx = 0
  /\ pages_updated = <<0, 0, 0>>
  /\ lifecycle_triggers = <<0, 0, 0>>
  /\ counts = NoCounts
  /\ mutations = <<>>
  /\ run_store = [p \in Pages |-> Range(page_labels[p])]
  /\ reconciled = {}

PoolInit == now = 20261101 /\ LabelIdle /\ DiscoverIdle /\ StateIdle /\ PoolStart
SpecPool == PoolInit /\ [][RunNext]_vars

----------------------------------------------------------------------------
(* Properties of action_set_page_label (SpecLabel) *)

Targets == Range(target_labels)
Deprecated == Range(deprecated_labels)

\* The directive "lifecycle_ignore" or "lifecycle_ignore=": ignore forever
IgnoreForever(l) == l = <<"lifecycle_ignore">> \/ l = <<"lifecycle_ignore", "">>

\* The directive "lifecycle_ignore=<date>" of a date after instant t
IgnoreUntilFuture(l, t) ==
  /\ Len(l) = 2 /\ l[1] = "lifecycle_ignore"
  /\ l[2] \in {"20200101", "20990101"}
  /\ (IF l[2] = "20200101" THEN 20200101 ELSE 20990101) > t

\* The directive "lifecycle_ignore=<date>" of a date before instant t, or of
\* a text that is no date
IgnoreExpiredOrMalformed(l, t) ==
  /\ Len(l) = 2 /\ l[1] = "lifecycle_ignore" /\ l[2] # ""
  /\ \/ l[2] \notin {"20200101", "20990101"}
     \/ (IF l[2] = "20200101" THEN 20200101 ELSE 20990101) < t

\* A directive that is neither expired nor malformed
IgnoreNotExpired(l, t) == l[1] = "lifecycle_ignore" /\ ~IgnoreExpiredOrMalformed(l, t)

\* The store calls made on one of the three target labels
TargetCalls(calls) == SelectSeq(calls, LAMBDA c : c.label \in Targets)

\* C1: whenever the current labels hold an active ignore directive (no date,
\* an empty date, or a date still in the future), action_set_page_label
\* returns change = false and lifecycle-suppressed = true, whatever the
\* desired label and the order of the labels.  Stated for the calls in which
\* no store call fails.
C1_ActiveIgnoreSuppresses ==
  (/\ lpc = "done"
   /\ fails = {}
   /\ \E i \in DOMAIN existing_labels :
        IgnoreForever(existing_labels[i]) \/ IgnoreUntilFuture(existing_labels[i], now))
  => (~result.raised /\ ~result.change /\ result.lifecycle_trigger)

\* C2: on a page that holds an ignore-until directive of a future date the
\* target labels are left as they are (none added, none removed), and the
\* labels removed are exactly the deprecated labels of the page.  Stated for
\* the calls in which no store call fails.
C2_FutureIgnoreKeepsPhaseLabels ==
  (/\ lpc = "done"
   /\ fails = {}
   /\ \E i \in DOMAIN existing_labels : IgnoreUntilFuture(existing_labels[i], now))
  => /\ TargetCalls(result.calls) = <<>>
     /\ store \cap Targets = Range(existing_labels) \cap Targets
     /\ Range(existing_labels) \ store = Range(existing_labels) \cap Deprecated

\* C10: after action_set_page_label completes on a page with no active
\* ignore directive and with no API error, the page carries the desired label
\* and neither of the other two target labels, for every initial list of
\* labels in every order.
C10_LabelsMatchDesired ==
  (/\ lpc = "done"
   /\ fails = {}
   /\ \A i \in DOMAIN existing_labels : ~IgnoreNotExpired(existing_labels[i], now))
  => /\ ~result.raised
     /\ store \cap Targets = {desired_label}

\* C7 as claimed: a page that carries the desired label and neither of the
\* other two target labels gets no-change / not-suppressed, no add or remove
\* of a target label, and loses its deprecated labels.  Stated for the calls
\* in which no store call fails.
C7_IdempotentAsClaimed ==
  (/\ lpc = "done"
   /\ fails = {}
   /\ Range(existing_labels) \cap Targets = {desired_label})
  => /\ ~result.raised /\ ~result.change /\ ~result.lifecycle_trigger
     /\ TargetCalls(result.calls) = <<>>
     /\ store \cap Deprecated = {}

\* C7, amended: on a page that carries the desired label, neither of the
\* other two target labels and no ignore directive that is still in force, no
\* target label is added or removed; the call raises exactly when the removal
\* of one of the page's deprecated labels fails, and otherwise returns
\* no-change / not-suppressed with every deprecated label of the page removed
\* and nothing else.
C7_Idempotent ==
  (/\ lpc = "done"
   /\ Range(existing_labels) \cap Targets = {desired_label}
   /\ \A i \in DOMAIN existing_labels : ~IgnoreNotExpired(existing_labels[i], now))
  => /\ TargetCalls(result.calls) = <<>>
     /\ result.raised <=>
          \E l \in Range(existing_labels) \cap Deprecated : <<"remove_page_label", l>> \in fails
     /\ ~result.raised =>
          /\ ~result.change /\ ~result.lifecycle_trigger
          /\ store = Range(existing_labels) \ Deprecated

\* A page with the desired label, a deprecated label and an expired
\* directive was reconciled: nothing but the deprecated label went.
C7_Witness ==
  /\ lpc = "done"
  /\ Range(existing_labels) \cap Targets = {desired_label}
  /\ Range(existing_labels) \cap Deprecated # {}
  /\ \E i \in DOMAIN existing_labels : IgnoreExpiredOrMalformed(existing_labels[i], now)
  /\ ~result.raised /\ ~result.change /\ ~result.lifecycle_trigger
  /\ store = Range(existing_labels) \ Deprecated

\* The list s without its i-th element
Without(s, i) == SubSeq(s, 1, i - 1) \o SubSeq(s, i + 1, Len(s))

\* C8: an ignore-until directive of a past date, or of a text that is no
\* date, does not suppress: the call returns the same outcome and makes the
\* same store calls, in the same order, as it does on the list of labels
\* without that directive, and lifecycle-suppressed is only reported when
\* another directive, still in force, is on the page.
C8_ExpiredDirectiveIsInert ==
  lpc = "done" =>
    \A i \in DOMAIN existing_labels :
      IgnoreExpiredOrMalformed(existing_labels[i], now) =>
        /\ result = ActionSetPageLabel(Without(existing_labels, i), desired_label, fails, now)
        /\ result.lifecycle_trigger =>
             \E j \in DOMAIN existing_labels : IgnoreNotExpired(existing_labels[j], now)

\* A page whose expired or malformed directive comes first was reconciled
\* all the same: an undesirable label was removed and the desired one set.
C8_Witness ==
  /\ lpc = "done"
  /\ Len(existing_labels) >= 2
  /\ IgnoreExpiredOrMalformed(existing_labels[1], now)
  /\ result.change
  /\ \E k \in DOMAIN result.calls :
       result.calls[k].op = "remove_page_label" /\ result.calls[k].label \in Targets

----------------------------------------------------------------------------
(* Properties of discover_all_pages_in_space (SpecDiscover) *)

\* C3: discover_all_pages_in_space returns at most max pages, for every size
\* of the space, every max >= 0 and every limit > 0, limit < max included.
C3_AtMostMaxPages ==
  dpc = "done" => Len(discovered.pages) <= max

\* C9 as claimed: with limit > max every request carries the limit max, and
\* a space of fewer than max pages is returned whole, each page once, by
\* exactly one request.
C9_OneRequestAsClaimed ==
  (dpc = "done" /\ limit > max /\ Len(space) < max)
  => /\ \A r \in DOMAIN discovered.requests : discovered.requests[r].limit = max
     /\ discovered.pages = space
     /\ Len(discovered.requests) = 1

\* C9, amended: with limit > max every request carries the limit max, and a
\* space of fewer than max pages is returned whole, each page once; a space
\* that is not empty takes exactly two requests, the second, at offset max,
\* being the empty answer that ends the loop, and an empty space takes one.
C9_ClampedDiscovery ==
  (dpc = "done" /\ limit > max /\ Len(space) < max)
  => /\ \A r \in DOMAIN discovered.requests : discovered.requests[r].limit = max
     /\ discovered.pages = space
     /\ IF Len(space) = 0
        THEN discovered.requests = <<[start |-> 0, limit |-> max]>>
        ELSE discovered.requests = <<[start |-> 0, limit |-> max],
                                     [start |-> max, limit |-> max]>>

\* A space of some pages, fewer than max, was discovered with limit > max.
C9_Witness ==
  /\ dpc = "done" /\ limit > max /\ Len(space) < max /\ Len(space) >= 2
  /\ discovered.pages = space
  /\ Len(discovered.requests) = 2

----------------------------------------------------------------------------
(* Properties of discover_page_state (SpecState) *)

fresh == target_labels[1]
stale == target_labels[2]
rotten == target_labels[3]

\* C4 as claimed: with 0 <= stale_days <= rotten_days and age a = now -
\* last_modified, the state is fresh when a < stale_days, stale when
\* stale_days <= a < rotten_days, rotten when a >= rotten_days.  Stated for
\* the calls in which both readings of the clock give the same instant.
C4_BoundariesAsClaimed ==
  (spc = "done" /\ clock_stale = clock_rotten /\ stale_days <= rotten_days)
  => LET a == clock_rotten - last_update IN
     /\ a < stale_days * TicksPerDay => state = fresh
     /\ (stale_days * TicksPerDay <= a /\ a < rotten_days * TicksPerDay) => state = stale
     /\ a >= rotten_days * TicksPerDay => state = rotten

\* C4, amended: with 0 <= stale_days <= rotten_days the state is rotten when
\* the age is above rotten_days, otherwise stale when the age is above
\* stale_days, otherwise fresh, each threshold being compared with the age at
\* the clock reading taken for it; an age equal to a threshold falls in the
\* less severe state.
C4_Boundaries ==
  (spc = "done" /\ stale_days <= rotten_days)
  => LET a_rotten == clock_rotten - last_update
         a_stale == clock_stale - last_update
     IN /\ a_rotten > rotten_days * TicksPerDay => state = rotten
        /\ (a_rotten <= rotten_days * TicksPerDay /\ a_stale > stale_days * TicksPerDay)
             => state = stale
        /\ (a_rotten <= rotten_days * TicksPerDay /\ a_stale <= stale_days * TicksPerDay)
             => state = fresh

\* A page whose age is exactly stale_days was classified, and is fresh.
C4_Witness ==
  /\ spc = "done" /\ 0 < stale_days /\ stale_days < rotten_days
  /\ clock_stale = clock_rotten
  /\ clock_stale - last_update = stale_days * TicksPerDay
  /\ state = fresh

----------------------------------------------------------------------------
(* Properties of manage_pages_in_space (SpecRun) *)

\* C5: an ApiError or HTTPError of a label removal or label application is
\* caught inside action_set_page_label, the removal of deprecated labels
\* included: no error leaves the reconciliation, and a run that is not
\* read-only gets to reconcile every page of its three buckets.
C5_LabelErrorsAreCaught ==
  /\ pc # "aborted"
  /\ (pc \in {"tally", "report", "done"} /\ ~readonly)
       => reconciled = Range(all_pages_in_space)

\* The page counts of the snapshot: the discovered pages of each state
SnapshotCounts ==
  LET found == Range(SubSeq([i \in PageIds |-> i], 1,
                 IF maxpages < NumPages THEN maxpages ELSE NumPages))
      Aged(lo, hi) == Cardinality({p \in found :
                        /\ now - page_updated[p] > lo * TicksPerDay
                        /\ now - page_updated[p] <= hi * TicksPerDay})
  IN <<Aged(-1, 90), Aged(90, 180), Aged(180, 1000)>>

\* C6: a read-only run issues no mutating store call (no remove_page_label,
\* set_page_label, attach_file or update_page, the report-update flag set or
\* not) and leaves every page's labels as they were, and the fresh / stale /
\* rotten counts a run computes are those of the snapshot, read-only or not.
C6_ReadOnlyRun ==
  /\ readonly => (mutations = <<>> /\ \A p \in DOMAIN run_store : run_store[p] = Range(page_labels[p]))
  /\ counts # NoCounts => counts = SnapshotCounts

\* A read-only run with the report-update flag set ended on pages that a
\* run which is not read-only would relabel.
C6_Witness ==
  /\ pc = "done" /\ readonly /\ updatepage
  /\ counts # NoCounts /\ counts[3] >= 1 /\ counts[1] >= 1
  /\ \E p \in Range(all_pages_in_space) : Range(page_labels[p]) \cap Deprecated # {}

----------------------------------------------------------------------------
(* Properties of the worker pool of manage_pages_in_space (SpecPool) *)

\* The pages whose classification task is with a worker
Running == {p \in Pages : tasks[p] = "running"}

\* The pages the mutating calls were issued for, in the order of the calls
MutatedPages == [i \in DOMAIN mutations |-> mutations[i].page]

\* C11: join barrier.  Under every interleaving of the discover_page_state
\* tasks, of which at most 15 run at once, no reconciliation and no label
\* mutation takes place before every classification task of the run has
\* completed; the reconciliation is then sequential, one page at a time: the
\* calls made for one page are not interleaved with those for another, and
\* the pages are taken in the order of the rotten, stale and fresh buckets.
C11_JoinBarrier ==
  /\ Cardinality(Running) <= 15
  /\ (\/ pc = "reconcile"
      \/ mutations # <<>>
      \/ reconciled # {}
      \/ \E p \in Pages : run_store[p] # Range(page_labels[p]))
     => \A i \in DOMAIN all_pages_in_space :
          /\ tasks[all_pages_in_space[i]] = "done"
          /\ task_state[all_pages_in_space[i]] \in Range(target_labels)
  /\ \A j \in 2..Len(mutations) :
       MutatedPages[j] # MutatedPages[j - 1]
         => \A i \in 1..(j - 1) : MutatedPages[i] # MutatedPages[j]
  /\ pc = "reconcile" =>
       reconciled = Range(SubSeq(buckets[3] \o buckets[2] \o buckets[1], 1,
                      Cardinality(reconciled)))

\* All fifteen workers are busy while a task still waits in the queue.
C11_PoolFull ==
  /\ pc = "classify"
  /\ Cardinality(Running) = 15
  /\ \E p \in Pages : tasks[p] = "queued"

\* A run over more pages than the pool has workers is reconciling: the tasks
\* are all done, and labels of several pages have been changed in turn.
C11_Witness ==
  /\ pc = "reconcile"
  /\ Len(all_pages_in_space) > 15
  /\ \A i \in DOMAIN all_pages_in_space : tasks[all_pages_in_space[i]] = "done"
  /\ Cardinality(Range(MutatedPages)) >= 2
  /\ Len(mutations) >= 4
  /\ Cardinality(reconciled) >= 3

====
